---------------------------- MODULE Spec2Model ----------------------------
(***************************************************************************)
(* A model of PlexComskip.py: the EDL parser, the segment deriver, the     *)
(* padder/merger, the retrying process runner, the size validator and the  *)
(* run of do_work inside work_dir.                                         *)
(*                                                                         *)
(* Times are seconds.  The source holds them as floats; every operation    *)
(* applied to them is an addition or a comparison, which integers model    *)
(* exactly.  File sizes are byte counts.                                   *)
(***************************************************************************)
EXTENDS Integers, Sequences, FiniteSets, TLC

VARIABLES
    pc,              \* position of the code under study
    \* list_segments, parse_edl, edl_to_segments
    data,            \* parse_edl: line.split() of the line last read
    lineno,          \* parse_edl: the number of lines read
    edl_segments,    \* the parsed EDL entries
    segments,        \* the keep-segments
    \* extend_end
    amount,          \* the margin
    extended2,       \* the returned list
    \* replace_original
    input_size,
    output_size,
    verdict,         \* what replace_original did: a return value or an exception
    \* call_and_retry
    r_pc,            \* position inside call_and_retry
    retries,
    num,
    returncode,      \* the return code of the last invocation of cmd
    outcomes,        \* the return codes of all invocations of cmd, in order
    \* main, work_dir, do_work
    COPY_ORIGINAL,
    SAVE_ALWAYS,
    SAVE_FORENSICS,
    video_path,      \* Path(sys.argv[1])
    fs,              \* the contents of the paths beside the original
    temp_dir_exists, \* whether the session workspace directory exists
    files,           \* the segment files in the workspace
    segments_txt,    \* the manifest segments.txt
    spliced_exists,  \* whether ffmpeg wrote the concatenated output
    keep,            \* work_dir's local
    exc,             \* the exception in flight, or NoExc
    whack_error,     \* cleanup_and_exit logged 'Problem whacking temp dir'
    \* write_segments: the pool
    tasks,           \* task index -> "pending" | "running" | "done"
    value,           \* task index -> the task's result
    order,           \* the task indices in order of completion
    segment_files,   \* remove_commercials' local
    concat_calls     \* the number of invocations of ffmpeg in concat mode

segVars == <<data, lineno, edl_segments, segments, amount, extended2>>
sizeVars == <<input_size, output_size, verdict>>
retryVars == <<r_pc, retries, num, returncode, outcomes>>
runVars == <<COPY_ORIGINAL, SAVE_ALWAYS, SAVE_FORENSICS, video_path, fs,
             temp_dir_exists, files, segments_txt, spliced_exists, keep, exc,
             whack_error>>
poolVars == <<tasks, value, order, segment_files, concat_calls>>

vars == <<pc, segVars, sizeVars, retryVars, runVars, poolVars>>

-----------------------------------------------------------------------------
(* Bounds of the model. *)

MaxTime == 6        \* edl_to_segments: EDL times are drawn from 0..MaxTime
MaxEdl == 3         \* edl_to_segments: an EDL has at most MaxEdl entries
MaxSegTime == 5     \* extend_end: segment times are drawn from 0..MaxSegTime
MaxSegs == 3        \* extend_end: a list has at most MaxSegs segments
MaxAmount == 2      \* extend_end: margins are drawn from 0..MaxAmount
MaxLines == 2       \* parse_edl: an EDL file has at most MaxLines lines
MaxFields == 4      \* parse_edl: a line splits into at most MaxFields fields
MaxInputSize == 100 \* replace_original: input sizes are drawn from 0..MaxInputSize
MaxOutputSize == 120 \* replace_original: output sizes, from 0..MaxOutputSize
MaxRetries == 5     \* call_and_retry: retries is drawn from -1..MaxRetries
MaxRunEdl == 2      \* do_work: comskip reports at most MaxRunEdl commercials
PoolProcesses == 2  \* Pool(): the number of worker processes

-----------------------------------------------------------------------------
(* Data *)

\* class Action(Enum): the members and the values they stand for
SKIP == "SKIP"
MUTE == "MUTE"
Action == {SKIP, MUTE}
ActionValue == [m \in Action |-> IF m = SKIP THEN "0" ELSE "1"]

SENTINEL == 0 - 1

Segment(start, end) == [start |-> start, end |-> end]

-----------------------------------------------------------------------------
(* edl_to_segments *)

maybe_yield(segment) ==
    IF segment.start < segment.end THEN <<segment>> ELSE <<>>

\* itertools.pairwise: the successive overlapping pairs of s.
pairwise(s) ==
    [i \in 1..(IF Len(s) = 0 THEN 0 ELSE Len(s) - 1) |-> <<s[i], s[i + 1]>>]

RECURSIVE edl_loop(_, _)
\* The for loop's yields from iteration k (num, 0-based) on.
edl_loop(pairs, k) ==
    IF k >= Len(pairs) THEN <<>>
    ELSE LET start == pairs[k + 1][1][1]
             end == pairs[k + 1][1][2]
             next_start == pairs[k + 1][2][1]
         IN  (IF k = 0 THEN maybe_yield(Segment(0, start)) ELSE <<>>)
                 \o maybe_yield(Segment(end, next_start))
                 \o edl_loop(pairs, k + 1)

\* edl_to_segments with the trailing yield inside the loop's last iteration:
\* no pair, no trailing segment.
edl_to_segments_tail_in_loop(edl) ==
    LET pairs == pairwise(edl)
    IN  edl_loop(pairs, 0)
            \o (IF Len(pairs) = 0 THEN <<>>
                ELSE <<Segment(pairs[Len(pairs)][2][2], SENTINEL)>>)

edl_to_segments(edl) ==
    LET pairs == pairwise(edl)
        \* next_end starts as 0.0 and is rebound by each iteration's unpacking
        next_end == IF Len(pairs) = 0 THEN 0 ELSE pairs[Len(pairs)][2][2]
    IN  edl_loop(pairs, 0) \o <<Segment(next_end, SENTINEL)>>

-----------------------------------------------------------------------------
(* extend_end *)

\* The padding applied to the sentinel end as well.
extend_pad_always(s, amt) == Segment(s.start, s.end + amt)

\* line 454: Segment(s.start, s.end + amount) if s.end > 0 else s
extend_pad(s, amt) ==
    IF s.end > 0 THEN Segment(s.start, s.end + amt) ELSE s

RECURSIVE extend_loop(_, _, _)
\* The for loop over `extended`: cur is a one-element or empty sequence
\* (None), acc is extended2 so far.
extend_loop(extended, cur, acc) ==
    IF extended = <<>>
    THEN (IF cur /= <<>> THEN Append(acc, cur[1]) ELSE acc)
    ELSE LET segment == Head(extended)
         IN  IF cur = <<>>
             THEN extend_loop(Tail(extended), <<segment>>, acc)
             ELSE IF cur[1].end < segment.start
                  THEN extend_loop(Tail(extended), <<segment>>, Append(acc, cur[1]))
                  ELSE extend_loop(Tail(extended),
                                   <<Segment(cur[1].start, segment.end)>>, acc)

\* extend_end without its lines 467-468: the segment still held in cur when
\* the loop ends is not appended.
extend_end_forgets_cur(segs, amt) ==
    LET extended == [i \in 1..Len(segs) |-> extend_pad(segs[i], amt)]
        merged == extend_loop(extended, <<>>, <<>>)
    IN  SubSeq(merged, 1, Len(merged) - 1)

extend_end(segs, amt) ==
    LET extended == [i \in 1..Len(segs) |-> extend_pad(segs[i], amt)]
    IN  extend_loop(extended, <<>>, <<>>)

-----------------------------------------------------------------------------
(* parse_edl *)

\* The tokens a line can split into.  float() accepts the numerals; Action()
\* accepts the two values of the enumeration.
Numerals == {"0", "1", "2"}
Tokens == Numerals \cup {"x"}

float(tok) == CASE tok = "0" -> 0 [] tok = "1" -> 1 [] tok = "2" -> 2

\* parse_edl taking every third field that is not "0" for MUTE.
parse_line_any_action(d) ==
    IF Len(d) < 1 THEN [raised |-> "IndexError"]
    ELSE IF d[1] \notin Numerals THEN [raised |-> "ValueError"]
    ELSE IF Len(d) < 2 THEN [raised |-> "IndexError"]
    ELSE IF d[2] \notin Numerals THEN [raised |-> "ValueError"]
    ELSE IF Len(d) < 3 THEN [raised |-> "IndexError"]
    ELSE [raised |-> "none",
          entry |-> <<float(d[1]), float(d[2]), IF d[3] = "0" THEN SKIP ELSE MUTE>>]

\* One iteration of parse_edl's loop on data = line.split(): the entry
\* yielded, or the exception raised.
parse_line(d) ==
    IF Len(d) < 1 THEN [raised |-> "IndexError"]
    ELSE IF d[1] \notin Numerals THEN [raised |-> "ValueError"]
    ELSE IF Len(d) < 2 THEN [raised |-> "IndexError"]
    ELSE IF d[2] \notin Numerals THEN [raised |-> "ValueError"]
    ELSE IF Len(d) < 3 THEN [raised |-> "IndexError"]
    ELSE IF \A m \in Action : ActionValue[m] /= d[3] THEN [raised |-> "ValueError"]
    ELSE [raised |-> "none",
          entry |-> <<float(d[1]), float(d[2]),
                      CHOOSE m \in Action : ActionValue[m] = d[3]>>]

-----------------------------------------------------------------------------
(* replace_original *)

\* float(output_size) / float(input_size) compared with a literal c/100.
\* For sizes below 2^44 the sizes convert exactly and the quotient's
\* rounding cannot cross a literal, so the comparison is that of the exact
\* ratio.
\* The lower comparison made inclusive.
RatioAboveOrEqual(out, in, c) == 100 * out >= c * in
RatioAbove(out, in, c) == 100 * out > c * in
RatioBelow(out, in, c) == 100 * out < c * in

SimilarLow == 99
SimilarHigh == 101
SaneLow == 50
SaneHigh == 110

\* replace_original without the `input_size and` guards: the division raises.
replace_original_unguarded(in, out) ==
    IF in = 0 THEN "ZeroDivisionError"
    ELSE IF RatioBelow(out, in, SimilarHigh) /\ RatioAbove(out, in, SimilarLow)
    THEN "False"
    ELSE IF RatioBelow(out, in, SaneHigh) /\ RatioAbove(out, in, SaneLow)
    THEN "True"
    ELSE "Wonky size"

\* What replace_original does: the value returned, or the exception raised.
replace_original(in, out) ==
    IF in /= 0 /\ RatioBelow(out, in, SimilarHigh) /\ RatioAbove(out, in, SimilarLow)
    THEN "False"
    ELSE IF in /= 0 /\ RatioBelow(out, in, SaneHigh) /\ RatioAbove(out, in, SaneLow)
    THEN "True"
    ELSE "Wonky size"

-----------------------------------------------------------------------------
(* call_and_retry *)

SIGSEGV == 11
SIGKILL == 9

\* What subprocess.check_call can report: 0, an exit status, or minus the
\* number of the signal that killed the process.
ReturnCodes == {0, 1, 0 - SIGSEGV, 0 - SIGKILL}

DefaultRetries == 2

\* line 382: if e.returncode != -signal.SIGSEGV: raise
not_retryable(rc) == rc /= 0 - SIGSEGV

\* The last iteration taken to be num == retries.
giving_up_late(n, r) == n = r

\* line 384: if num == retries - 1
giving_up(n, r) == n = r - 1

\* for num in range(retries): whether the loop has another iteration
in_range(n, r) == n < r

-----------------------------------------------------------------------------
(* Inputs *)

RECURSIVE OrderedEdls(_, _)
\* The EDLs of at most k entries, each with start < end, in increasing,
\* non-overlapping time order, none starting before `from`.
OrderedEdls(k, from) ==
    {<<>>} \cup
    (IF k = 0 THEN {}
     ELSE UNION { { <<<<s, e, a>>>> \o rest : rest \in OrderedEdls(k - 1, e) } :
                  <<s, e, a>> \in { x \in (from..MaxTime) \X (from..MaxTime) \X Action :
                                    x[1] < x[2] } })

RECURSIVE FiniteSegs(_, _)
\* The lists of at most k finite segments, each with start < end, in time
\* order and disjoint, none starting before `from`.
FiniteSegs(k, from) ==
    {<<>>} \cup
    (IF k = 0 THEN {}
     ELSE UNION { { <<Segment(s, e)>> \o rest : rest \in FiniteSegs(k - 1, e) } :
                  <<s, e>> \in { x \in (from..MaxSegTime) \X (from..MaxSegTime) :
                                 x[1] < x[2] } })

LastEnd(segs) == IF segs = <<>> THEN 0 ELSE segs[Len(segs)].end

\* Ordered keep-segment lists: finite segments, then at most one segment
\* that runs to the sentinel.
OrderedSegs ==
    FiniteSegs(MaxSegs, 0) \cup
    UNION { { f \o <<Segment(s, SENTINEL)>> : s \in LastEnd(f)..MaxSegTime } :
            f \in FiniteSegs(MaxSegs - 1, 0) }

-----------------------------------------------------------------------------
(* The values of the variables a specification does not use *)

NoExc == "none"
NoManifest == [written |-> FALSE, lines |-> <<>>]

SegIdle ==
    /\ data = <<>>
    /\ lineno = 0
    /\ edl_segments = <<>>
    /\ segments = <<>>
    /\ amount = 0
    /\ extended2 = <<>>

SizeIdle ==
    /\ input_size = 0
    /\ output_size = 0
    /\ verdict = "none"

RetryIdle ==
    /\ r_pc = "idle"
    /\ retries = 0
    /\ num = 0
    /\ returncode = 0
    /\ outcomes = <<>>

RunIdle ==
    /\ COPY_ORIGINAL = FALSE
    /\ SAVE_ALWAYS = FALSE
    /\ SAVE_FORENSICS = FALSE
    /\ video_path = [stem |-> "", suffix |-> ""]
    /\ fs = <<>>
    /\ temp_dir_exists = FALSE
    /\ files = {}
    /\ segments_txt = NoManifest
    /\ spliced_exists = FALSE
    /\ keep = FALSE
    /\ exc = NoExc
    /\ whack_error = FALSE

PoolIdle ==
    /\ tasks = <<>>
    /\ value = <<>>
    /\ order = <<>>
    /\ segment_files = <<>>
    /\ concat_calls = 0

-----------------------------------------------------------------------------
(* Specification of list_segments: parse_edl, then edl_to_segments *)

\* What line.split() can give: up to MaxFields tokens.
SplitLines == UNION { [1..n -> Tokens] : n \in 0..MaxFields }

InitParse ==
    /\ pc = "parse_edl"
    /\ SegIdle /\ SizeIdle /\ RetryIdle /\ RunIdle /\ PoolIdle

\* parse_edl, lines 210-215: the next line of the file is read and parsed.
ParseLine ==
    /\ pc = "parse_edl"
    /\ lineno < MaxLines
    /\ \E d \in SplitLines :
          LET parsed == parse_line(d)
          IN  /\ data' = d
              /\ lineno' = lineno + 1
              /\ IF parsed.raised = "none"
                 THEN /\ edl_segments' = Append(edl_segments, parsed.entry)
                      /\ pc' = "parse_edl"
                 ELSE /\ edl_segments' = edl_segments
                      /\ pc' = parsed.raised
    /\ UNCHANGED <<segments, amount, extended2>>
    /\ UNCHANGED <<sizeVars, retryVars, runVars, poolVars>>

\* The file has no more lines: list(parse_edl(edl)) is complete.
ParseEnd ==
    /\ pc = "parse_edl"
    /\ pc' = "edl_to_segments"
    /\ UNCHANGED <<segVars, sizeVars, retryVars, runVars, poolVars>>

\* list_segments, line 257: list(edl_to_segments(edl_segments))
Derive ==
    /\ pc = "edl_to_segments"
    /\ segments' = edl_to_segments(edl_segments)
    /\ pc' = "derived"
    /\ UNCHANGED <<data, lineno, edl_segments, amount, extended2>>
    /\ UNCHANGED <<sizeVars, retryVars, runVars, poolVars>>

NextParse == ParseLine \/ ParseEnd \/ Derive

SpecParse == InitParse /\ [][NextParse]_vars

-----------------------------------------------------------------------------
(* Specification of edl_to_segments on ordered EDLs *)

InitDerive ==
    /\ pc = "edl_to_segments"
    /\ edl_segments \in OrderedEdls(MaxEdl, 0)
    /\ data = <<>> /\ lineno = 0
    /\ segments = <<>>
    /\ amount = 0
    /\ extended2 = <<>>
    /\ SizeIdle /\ RetryIdle /\ RunIdle /\ PoolIdle

NextDerive == Derive

SpecDerive == InitDerive /\ [][NextDerive]_vars

-----------------------------------------------------------------------------
(* Specification of extend_end *)

InitExtend ==
    /\ pc = "extend_end"
    /\ segments \in OrderedSegs
    /\ amount \in 0..MaxAmount
    /\ extended2 = <<>>
    /\ data = <<>> /\ lineno = 0
    /\ edl_segments = <<>>
    /\ SizeIdle /\ RetryIdle /\ RunIdle /\ PoolIdle

ExtendEnd ==
    /\ pc = "extend_end"
    /\ extended2' = extend_end(segments, amount)
    /\ pc' = "extended"
    /\ UNCHANGED <<data, lineno, edl_segments, segments, amount>>
    /\ UNCHANGED <<sizeVars, retryVars, runVars, poolVars>>

NextExtend == ExtendEnd

SpecExtend == InitExtend /\ [][NextExtend]_vars

-----------------------------------------------------------------------------
(* Specification of extend_end applied to its own output *)

\* extended2 = extend_end(extended2, 0): the list returned by the first call
\* is the argument of a second call, with margin 0.  segments and amount keep
\* the arguments of the first call.
ExtendEndAgain ==
    /\ pc = "extended"
    /\ extended2' = extend_end(extended2, 0)
    /\ pc' = "extended_again"
    /\ UNCHANGED <<data, lineno, edl_segments, segments, amount>>
    /\ UNCHANGED <<sizeVars, retryVars, runVars, poolVars>>

NextExtendTwice == ExtendEnd \/ ExtendEndAgain

SpecExtendTwice == InitExtend /\ [][NextExtendTwice]_vars

-----------------------------------------------------------------------------
(* Specification of replace_original *)

InitSize ==
    /\ pc = "replace_original"
    /\ input_size \in 0..MaxInputSize
    /\ output_size \in 0..MaxOutputSize
    /\ verdict = "none"
    /\ SegIdle /\ RetryIdle /\ RunIdle /\ PoolIdle

SanityCheck ==
    /\ pc = "replace_original"
    /\ verdict' = replace_original(input_size, output_size)
    /\ pc' = "checked"
    /\ UNCHANGED <<input_size, output_size>>
    /\ UNCHANGED <<segVars, retryVars, runVars, poolVars>>

NextSize == SanityCheck

SpecSize == InitSize /\ [][NextSize]_vars

-----------------------------------------------------------------------------
(* Specification of call_and_retry *)

InitRetry ==
    /\ pc = "call_and_retry"
    /\ r_pc = "for"
    /\ retries \in (0 - 1)..MaxRetries
    /\ num = 0
    /\ returncode = 0
    /\ outcomes = <<>>
    /\ SegIdle /\ SizeIdle /\ RunIdle /\ PoolIdle

\* line 376: the loop starts its next iteration, or is exhausted and the
\* function falls off its end.
RetryFor ==
    /\ r_pc = "for"
    /\ r_pc' = IF in_range(num, retries) THEN "check_call" ELSE "returned"
    /\ UNCHANGED <<retries, num, returncode, outcomes>>
    /\ UNCHANGED <<pc, segVars, sizeVars, runVars, poolVars>>

\* line 380: return subprocess.check_call(cmd)
RetryCall ==
    /\ r_pc = "check_call"
    /\ \E rc \in ReturnCodes :
          /\ returncode' = rc
          /\ outcomes' = Append(outcomes, rc)
          /\ r_pc' = IF rc = 0 THEN "returned" ELSE "except"
    /\ UNCHANGED <<retries, num>>
    /\ UNCHANGED <<pc, segVars, sizeVars, runVars, poolVars>>

\* lines 381-386: the handler of CalledProcessError
RetryExcept ==
    /\ r_pc = "except"
    /\ IF not_retryable(returncode) \/ giving_up(num, retries)
       THEN r_pc' = "raised" /\ num' = num
       ELSE r_pc' = "for" /\ num' = num + 1
    /\ UNCHANGED <<retries, returncode, outcomes>>
    /\ UNCHANGED <<pc, segVars, sizeVars, runVars, poolVars>>

NextRetry == RetryFor \/ RetryCall \/ RetryExcept

SpecRetry == InitRetry /\ [][NextRetry]_vars

-----------------------------------------------------------------------------
(* main: do_work inside work_dir *)

VideoSuffixes == {".ts", ".mkv"}
Paths == {[stem |-> "video", suffix |-> x] : x \in VideoSuffixes}

\* Path.with_suffix
with_suffix(path, suffix) == [path EXCEPT !.suffix = suffix]

\* line 519: video_path.with_suffix(output_video.suffixes[-1]), output_video
\* being '<name>.spliced.ts' (line 336)
target_of(path) == with_suffix(path, ".ts")

\* line 523: target.samefile(video_path)
samefile(a, b) == a = b

\* make_segment_file, lines 178-180: 'segment-%s' % num, then video_ext
segment_file_name(i, ext) == <<"segment-", i, ext>>

MinSegmentSize == 1000
DefaultAmount == 5

None == [kind |-> "None"]
NotDone == [kind |-> "not done"]
Raised == [kind |-> "raised"]

\* write_segment_file without the size test.
write_segment_file_keeps_all(name, size) == [kind |-> "file", name |-> name]

\* write_segment_file, lines 277-283, on the file ffmpeg wrote
write_segment_file(name, size) ==
    IF size < MinSegmentSize THEN None ELSE [kind |-> "file", name |-> name]

\* The sizes of an extracted segment file that the model draws from.
SegmentSizes == {MinSegmentSize - 1, MinSegmentSize}

\* p.starmap's result in completion order.
starmap_as_completed(val, ord) == [k \in 1..Len(ord) |-> val[ord[k]]]

\* p.starmap's result: the tasks' results in the order of the iterable.
starmap_result(val, ord) == [k \in 1..Len(ord) |-> val[k - 1]]

RECURSIVE not_none(_)
\* line 302: (f for f in segment_file_names if f is not None)
not_none(names) ==
    IF names = <<>> THEN <<>>
    ELSE (IF Head(names) = None THEN <<>> ELSE <<Head(names).name>>)
             \o not_none(Tail(names))

\* The EDLs comskip leaves in the model: k commercials of 10 s, 20 s apart,
\* the first at `first`.
RunEdl(k, first) ==
    [j \in 1..k |-> <<first + 20 * (j - 1), first + 20 * (j - 1) + 10, SKIP>>]

RunEdls == {RunEdl(k, first) : k \in 0..MaxRunEdl, first \in {0, 10}}

\* The sizes os.path.getsize reports in the model, <<input, output>>: one
\* pair for each verdict, and an empty original.
RunSizes == {<<100, 100>>, <<100, 70>>, <<100, 120>>, <<0, 70>>}

Init ==
    /\ pc = "work_dir"
    /\ COPY_ORIGINAL \in BOOLEAN
    /\ SAVE_ALWAYS \in BOOLEAN
    /\ SAVE_FORENSICS \in BOOLEAN
    /\ video_path \in Paths
    /\ fs = [p \in Paths |-> IF p = video_path THEN "original" ELSE "absent"]
    /\ temp_dir_exists = FALSE
    /\ files = {}
    /\ segments_txt = NoManifest
    /\ spliced_exists = FALSE
    /\ keep = FALSE
    /\ exc = NoExc
    /\ whack_error = FALSE
    /\ SegIdle /\ SizeIdle /\ RetryIdle /\ PoolIdle

\* The body raises e: control goes to work_dir's except clause.
Raise(e) ==
    /\ exc' = e
    /\ pc' = "raised"

\* work_dir, lines 83-87
WorkDirEnter ==
    /\ pc = "work_dir"
    /\ temp_dir_exists' = TRUE
    /\ keep' = SAVE_ALWAYS
    /\ pc' = "do_work"
    /\ UNCHANGED <<COPY_ORIGINAL, SAVE_ALWAYS, SAVE_FORENSICS, video_path, fs,
                   files, segments_txt, spliced_exists, exc, whack_error>>
    /\ UNCHANGED <<segVars, sizeVars, retryVars, poolVars>>

\* do_work, lines 486-508: the setup, and the copy of the original into the
\* workspace when COPY_ORIGINAL or SAVE_ALWAYS is set; the copy can fail.
CopyOriginal ==
    /\ pc = "do_work"
    /\ \/ /\ pc' = "detect_commercials"
          /\ exc' = exc
       \/ /\ COPY_ORIGINAL \/ SAVE_ALWAYS
          /\ Raise("OSError")
    /\ UNCHANGED <<COPY_ORIGINAL, SAVE_ALWAYS, SAVE_FORENSICS, video_path, fs,
                   temp_dir_exists, files, segments_txt, spliced_exists, keep,
                   whack_error>>
    /\ UNCHANGED <<segVars, sizeVars, retryVars, poolVars>>

\* detect_commercials, lines 391-396: call_and_retry(cmd)
DetectCommercials ==
    /\ pc = "detect_commercials"
    /\ r_pc' = "for"
    /\ retries' = DefaultRetries
    /\ num' = 0
    /\ returncode' = 0
    /\ outcomes' = <<>>
    /\ pc' = "call_and_retry"
    /\ UNCHANGED <<segVars, sizeVars, runVars, poolVars>>

\* call_and_retry returned, or raised, into do_work (lines 510-514); its
\* frame is gone.
DetectDone ==
    /\ pc = "call_and_retry"
    /\ \/ /\ r_pc = "returned"
          /\ pc' = "list_segments"
          /\ exc' = exc
       \/ /\ r_pc = "raised"
          /\ Raise("CalledProcessError")
    /\ r_pc' = "idle"
    /\ retries' = 0
    /\ num' = 0
    /\ returncode' = 0
    /\ outcomes' = <<>>
    /\ UNCHANGED <<COPY_ORIGINAL, SAVE_ALWAYS, SAVE_FORENSICS, video_path, fs,
                   temp_dir_exists, files, segments_txt, spliced_exists, keep,
                   whack_error>>
    /\ UNCHANGED <<segVars, sizeVars, poolVars>>

\* remove_commercials, line 338: list_segments(edl_file) on the EDL comskip
\* left, or its failure (no file, a malformed line).
ListSegments ==
    /\ pc = "list_segments"
    /\ \/ /\ \E edl \in RunEdls :
                /\ edl_segments' = edl
                /\ segments' = edl_to_segments(edl)
          /\ pc' = "extend_segments"
          /\ exc' = exc
       \/ /\ Raise("ValueError")
          /\ UNCHANGED <<edl_segments, segments>>
    /\ UNCHANGED <<data, lineno, amount, extended2>>
    /\ UNCHANGED <<COPY_ORIGINAL, SAVE_ALWAYS, SAVE_FORENSICS, video_path, fs,
                   temp_dir_exists, files, segments_txt, spliced_exists, keep,
                   whack_error>>
    /\ UNCHANGED <<sizeVars, retryVars, poolVars>>

\* remove_commercials, line 339: segments = extend_end(segments)
ExtendSegments ==
    /\ pc = "extend_segments"
    /\ segments' = extend_end(segments, DefaultAmount)
    /\ pc' = "write_segments"
    /\ UNCHANGED <<data, lineno, edl_segments, amount, extended2>>
    /\ UNCHANGED <<sizeVars, retryVars, runVars, poolVars>>

\* write_segments, lines 299-301: the pool is created and starmap hands it
\* one task per segment, numbered from 0.
PoolStart ==
    /\ pc = "write_segments"
    /\ tasks' = [i \in 0..(Len(segments) - 1) |-> "pending"]
    /\ value' = [i \in 0..(Len(segments) - 1) |-> NotDone]
    /\ order' = <<>>
    /\ pc' = "starmap"
    /\ UNCHANGED <<segment_files, concat_calls>>
    /\ UNCHANGED <<segVars, sizeVars, retryVars, runVars>>

Running == {i \in DOMAIN tasks : tasks[i] = "running"}

\* A free worker process takes task i.
TaskStart(i) ==
    /\ pc = "starmap"
    /\ tasks[i] = "pending"
    /\ Cardinality(Running) < PoolProcesses
    /\ tasks' = [tasks EXCEPT ![i] = "running"]
    /\ UNCHANGED <<value, order, segment_files, concat_calls>>
    /\ UNCHANGED <<pc, segVars, sizeVars, retryVars, runVars>>

\* write_segment_file(input_video, i, segment) ends in its worker: ffmpeg
\* failed (make_segment_file re-raises), or wrote the segment file.
TaskFinish(i) ==
    /\ pc = "starmap"
    /\ tasks[i] = "running"
    /\ tasks' = [tasks EXCEPT ![i] = "done"]
    /\ order' = Append(order, i)
    /\ \/ /\ value' = [value EXCEPT ![i] = Raised]
          /\ files' = files
       \/ \E size \in SegmentSizes :
             LET name == segment_file_name(i, video_path.suffix)
             IN  /\ files' = {f \in files : f.name /= name}
                                 \cup {[name |-> name, writer |-> i, size |-> size]}
                 /\ value' = [value EXCEPT ![i] = write_segment_file(name, size)]
    /\ UNCHANGED <<segment_files, concat_calls>>
    /\ UNCHANGED <<COPY_ORIGINAL, SAVE_ALWAYS, SAVE_FORENSICS, video_path, fs,
                   temp_dir_exists, segments_txt, spliced_exists, keep, exc,
                   whack_error>>
    /\ UNCHANGED <<pc, segVars, sizeVars, retryVars>>

\* The join without the last task of the iterable.
starmap_ready_before_last(t) ==
    \A i \in DOMAIN t : t[i] = "done" \/ i = Cardinality(DOMAIN t) - 1

\* lines 300-301: p.starmap blocks until every task of the iterable has
\* reported its result or its exception.
starmap_ready(t) == \A i \in DOMAIN t : t[i] = "done"

\* starmap returns once every task is done: it raises a task's exception, or
\* returns the results, which write_segments filters (line 302) and
\* remove_commercials lists (line 340).
StarmapJoin ==
    /\ pc = "starmap"
    /\ starmap_ready(tasks)
    /\ IF \E i \in DOMAIN value : value[i] = Raised
       THEN /\ Raise("CalledProcessError")
            /\ segment_files' = segment_files
       ELSE /\ segment_files' = not_none(starmap_result(value, order))
            /\ pc' = "write_segments_file"
            /\ exc' = exc
    /\ UNCHANGED <<tasks, value, order, concat_calls>>
    /\ UNCHANGED <<COPY_ORIGINAL, SAVE_ALWAYS, SAVE_FORENSICS, video_path, fs,
                   temp_dir_exists, files, segments_txt, spliced_exists, keep,
                   whack_error>>
    /\ UNCHANGED <<segVars, sizeVars, retryVars>>

\* write_segments_file, lines 316-320
WriteSegmentsFile ==
    /\ pc = "write_segments_file"
    /\ segments_txt' =
           [written |-> TRUE,
            lines |-> [k \in 1..Len(segment_files) |-> <<"file", segment_files[k]>>]]
    /\ pc' = "ffmpeg_concat"
    /\ UNCHANGED <<COPY_ORIGINAL, SAVE_ALWAYS, SAVE_FORENSICS, video_path, fs,
                   temp_dir_exists, files, spliced_exists, keep, exc, whack_error>>
    /\ UNCHANGED <<segVars, sizeVars, retryVars, poolVars>>

\* remove_commercials, lines 349-355: ffmpeg_concat, which can fail
FfmpegConcat ==
    /\ pc = "ffmpeg_concat"
    /\ concat_calls' = concat_calls + 1
    /\ \/ /\ spliced_exists' = TRUE
          /\ pc' = "replace_original"
          /\ exc' = exc
       \/ /\ Raise("CalledProcessError")
          /\ spliced_exists' = spliced_exists
    /\ UNCHANGED <<tasks, value, order, segment_files>>
    /\ UNCHANGED <<COPY_ORIGINAL, SAVE_ALWAYS, SAVE_FORENSICS, video_path, fs,
                   temp_dir_exists, files, segments_txt, keep, whack_error>>
    /\ UNCHANGED <<segVars, sizeVars, retryVars>>

\* do_work, line 517: replace_original(video_path, output_video) on the
\* sizes the two files have
ReplaceOriginal ==
    /\ pc = "replace_original"
    /\ \E <<in, out>> \in RunSizes :
          /\ input_size' = in
          /\ output_size' = out
          /\ verdict' = replace_original(in, out)
          /\ IF replace_original(in, out) = "True"
             THEN pc' = "copy" /\ exc' = exc
             ELSE IF replace_original(in, out) = "False"
             THEN pc' = "returned" /\ exc' = exc
             ELSE Raise(replace_original(in, out))
    /\ UNCHANGED <<COPY_ORIGINAL, SAVE_ALWAYS, SAVE_FORENSICS, video_path, fs,
                   temp_dir_exists, files, segments_txt, spliced_exists, keep,
                   whack_error>>
    /\ UNCHANGED <<segVars, retryVars, poolVars>>

\* do_work, line 522: shutil.copy opens target for writing, which empties
\* the file there, or fails to open it.
CopyOpen ==
    /\ pc = "copy"
    /\ \/ /\ fs' = [fs EXCEPT ![target_of(video_path)] = "partial"]
          /\ pc' = "copying"
          /\ exc' = exc
       \/ /\ Raise("OSError")
          /\ fs' = fs
    /\ UNCHANGED <<COPY_ORIGINAL, SAVE_ALWAYS, SAVE_FORENSICS, video_path,
                   temp_dir_exists, files, segments_txt, spliced_exists, keep,
                   whack_error>>
    /\ UNCHANGED <<segVars, sizeVars, retryVars, poolVars>>

\* do_work, line 522: shutil.copy writes the whole of output_video, or
\* fails part-way.
CopyWrite ==
    /\ pc = "copying"
    /\ \/ /\ fs' = [fs EXCEPT ![target_of(video_path)] = "replacement"]
          /\ pc' = "samefile"
          /\ exc' = exc
       \/ /\ Raise("OSError")
          /\ fs' = fs
    /\ UNCHANGED <<COPY_ORIGINAL, SAVE_ALWAYS, SAVE_FORENSICS, video_path,
                   temp_dir_exists, files, segments_txt, spliced_exists, keep,
                   whack_error>>
    /\ UNCHANGED <<segVars, sizeVars, retryVars, poolVars>>

\* do_work, lines 523-524
UnlinkOriginal ==
    /\ pc = "samefile"
    /\ IF samefile(target_of(video_path), video_path)
       THEN fs' = fs
       ELSE fs' = [fs EXCEPT ![video_path] = "absent"]
    /\ pc' = "returned"
    /\ UNCHANGED <<COPY_ORIGINAL, SAVE_ALWAYS, SAVE_FORENSICS, video_path,
                   temp_dir_exists, files, segments_txt, spliced_exists, keep,
                   exc, whack_error>>
    /\ UNCHANGED <<segVars, sizeVars, retryVars, poolVars>>

\* The except clause without save_forensics.
except_keep_ignores_forensics(k, save_forensics) == k

\* work_dir, line 89: keep = keep or save_forensics
except_keep(k, save_forensics) == k \/ save_forensics

\* work_dir, lines 88-90: except BaseException
WorkDirExcept ==
    /\ pc = "raised"
    /\ keep' = except_keep(keep, SAVE_FORENSICS)
    /\ pc' = "finally"
    /\ UNCHANGED <<COPY_ORIGINAL, SAVE_ALWAYS, SAVE_FORENSICS, video_path, fs,
                   temp_dir_exists, files, segments_txt, spliced_exists, exc,
                   whack_error>>
    /\ UNCHANGED <<segVars, sizeVars, retryVars, poolVars>>

\* The body ended without an exception.
WorkDirBodyDone ==
    /\ pc = "returned"
    /\ pc' = "finally"
    /\ UNCHANGED <<segVars, sizeVars, retryVars, runVars, poolVars>>

\* cleanup_and_exit, lines 57-66
cleanup_keeps(keep_temp) == keep_temp

\* work_dir, lines 91-92: cleanup_and_exit(temp_dir, keep_temp=keep); then
\* the exception, if any, goes on to the caller.
WorkDirFinally ==
    /\ pc = "finally"
    /\ IF cleanup_keeps(keep)
       THEN UNCHANGED <<temp_dir_exists, whack_error>>
       ELSE \/ /\ temp_dir_exists' = FALSE
               /\ whack_error' = whack_error
            \/ /\ temp_dir_exists' = temp_dir_exists
               /\ whack_error' = TRUE
    /\ pc' = IF exc = NoExc THEN "exited" ELSE "propagated"
    /\ UNCHANGED <<COPY_ORIGINAL, SAVE_ALWAYS, SAVE_FORENSICS, video_path, fs,
                   files, segments_txt, spliced_exists, keep, exc>>
    /\ UNCHANGED <<segVars, sizeVars, retryVars, poolVars>>

Next ==
    \/ WorkDirEnter
    \/ CopyOriginal
    \/ DetectCommercials
    \/ RetryFor
    \/ RetryCall
    \/ RetryExcept
    \/ DetectDone
    \/ ListSegments
    \/ ExtendSegments
    \/ PoolStart
    \/ \E i \in DOMAIN tasks : TaskStart(i)
    \/ \E i \in DOMAIN tasks : TaskFinish(i)
    \/ StarmapJoin
    \/ WriteSegmentsFile
    \/ FfmpegConcat
    \/ ReplaceOriginal
    \/ CopyOpen
    \/ CopyWrite
    \/ UnlinkOriginal
    \/ WorkDirExcept
    \/ WorkDirBodyDone
    \/ WorkDirFinally

Spec == Init /\ [][Next]_vars

-----------------------------------------------------------------------------
(* Claims about edl_to_segments *)

\* Whether second t (the interval [t, t+1)) lies in a keep-segment / in a
\* drop-interval.
KeepCovers(seg, t) == seg.start <= t /\ (seg.end = SENTINEL \/ t < seg.end)
DropCovers(entry, t) == entry[1] <= t /\ t < entry[2]

TimesCovered(t) ==
    Cardinality({i \in 1..Len(segments) : KeepCovers(segments[i], t)})
        + Cardinality({j \in 1..Len(edl_segments) : DropCovers(edl_segments[j], t)})

\* C1: for every EDL in increasing, non-overlapping order (a single entry
\* included), the emitted segments are in increasing order, pairwise
\* disjoint, none empty, and with the drop-intervals cover [0, +infinity)
\* exactly once; the last runs from the last drop-interval's end to the
\* sentinel.
C1_SegmentsAreComplement ==
    pc = "derived" =>
        /\ Len(segments) >= 1
        /\ \A i \in 1..Len(segments) :
               segments[i].end = SENTINEL \/ segments[i].start < segments[i].end
        /\ \A i \in 1..(Len(segments) - 1) :
               /\ segments[i].end /= SENTINEL
               /\ segments[i].end <= segments[i + 1].start
        /\ \A t \in 0..(MaxTime + 1) : TimesCovered(t) = 1
        /\ segments[Len(segments)] =
               Segment(IF edl_segments = <<>> THEN 0
                       ELSE edl_segments[Len(edl_segments)][2], SENTINEL)

\* The same statement for the EDLs that are not a single entry.
C1_HoldsExceptSingleEntry ==
    Len(edl_segments) /= 1 => C1_SegmentsAreComplement

\* C11: on an empty EDL (no drop-interval at all) edl_to_segments emits
\* exactly one keep-segment, (0, SENTINEL): the whole file is kept.
C11_EmptyEdlKeepsWholeFile ==
    (pc = "derived" /\ edl_segments = <<>>) =>
        /\ Len(segments) = 1
        /\ segments = <<Segment(0, SENTINEL)>>

\* edl_to_segments has run on the empty EDL and kept the whole file.
C11_Witness ==
    /\ pc = "derived"
    /\ edl_segments = <<>>
    /\ segments = <<Segment(0, SENTINEL)>>

-----------------------------------------------------------------------------
(* Claims about extend_end *)

Max(a, b) == IF a >= b THEN a ELSE b

\* The later of two ends, the sentinel dominating.
LaterEnd(a, b) == IF a = SENTINEL \/ b = SENTINEL THEN SENTINEL ELSE Max(a, b)

PaddedList ==
    [i \in 1..Len(segments) |->
        IF segments[i].end = SENTINEL THEN segments[i]
        ELSE Segment(segments[i].start, segments[i].end + amount)]

RECURSIVE MergeRule(_, _)
\* The merge rule as the specification words it: acc is the accumulated
\* segment, rest the segments still to scan.
MergeRule(acc, rest) ==
    IF rest = <<>> THEN <<acc>>
    ELSE IF acc.end = SENTINEL \/ acc.end >= Head(rest).start
         THEN MergeRule(Segment(acc.start, LaterEnd(acc.end, Head(rest).end)),
                        Tail(rest))
         ELSE <<acc>> \o MergeRule(Head(rest), Tail(rest))

MergedList ==
    IF segments = <<>> THEN <<>> ELSE MergeRule(Head(PaddedList), Tail(PaddedList))

\* C5: extend_end returns the padded list (sentinel end unpadded) merged left
\* to right by the merge rule; the result is in time order, no longer than
\* the input, and every end is strictly less than the next start.
C5_ExtendEndPadsAndMerges ==
    pc = "extended" =>
        /\ extended2 = MergedList
        /\ Len(extended2) <= Len(segments)
        /\ \A i \in 1..(Len(extended2) - 1) :
               /\ extended2[i].end /= SENTINEL
               /\ extended2[i].start < extended2[i + 1].start
               /\ extended2[i].end < extended2[i + 1].start
        /\ (segments /= <<>> /\ segments[Len(segments)].end = SENTINEL)
               => extended2[Len(extended2)].end = SENTINEL
        /\ extend_end(<<Segment(5, 96), Segment(100, 120), Segment(130, SENTINEL)>>, 5)
               = <<Segment(5, 125), Segment(130, SENTINEL)>>
        /\ extend_end(<<Segment(5, 6), Segment(100, 120), Segment(130, SENTINEL)>>, 5)
               = <<Segment(5, 11), Segment(100, 125), Segment(130, SENTINEL)>>

\* A padded end reached the next segment, the two were fused, and a
\* sentinel-ended segment was left unpadded.
C5_Witness ==
    /\ pc = "extended"
    /\ amount > 0
    /\ Len(segments) = 3
    /\ Len(extended2) = 2
    /\ segments[3].end = SENTINEL
    /\ extended2[2] = segments[3]
    /\ extended2[1] = Segment(segments[1].start, segments[2].end + amount)

\* C12: extend_end is idempotent on its own output: for every ordered
\* keep-segment list S and margin m >= 0, extend_end(extend_end(S, m), 0)
\* equals extend_end(S, m).  At "extended_again" extended2 holds the result
\* of the second call, segments and amount hold S and m.
C12_ExtendEndIdempotent ==
    pc = "extended_again" => extended2 = extend_end(segments, amount)

\* The first call padded three segments and fused the first two; the second
\* call, with margin 0, returned the two segments it was given.
C12_Witness ==
    /\ pc = "extended_again"
    /\ amount > 0
    /\ Len(segments) = 3
    /\ segments[3].end = SENTINEL
    /\ extended2 = <<Segment(segments[1].start, segments[2].end + amount),
                     segments[3]>>

-----------------------------------------------------------------------------
(* Claims about replace_original *)

\* C2: with input size > 0 and r = output/input: 0.99 < r < 1.01 returns
\* False; otherwise 0.5 < r < 1.1 returns True; otherwise (r <= 0.5 or
\* r >= 1.1) the wonky error is raised.  The ratios 0.99 and 1.01 are
\* plausible, the ratios 0.5 and 1.1 wonky.
C2_SizeRatioVerdict ==
    (pc = "checked" /\ input_size > 0) =>
        LET o == 100 * output_size
            i == input_size
            similar == 99 * i < o /\ o < 101 * i
            sane == 50 * i < o /\ o < 110 * i
        IN  /\ similar => verdict = "False"
            /\ (~similar /\ sane) => verdict = "True"
            /\ (o <= 50 * i \/ o >= 110 * i) => verdict = "Wonky size"
            /\ (o = 99 * i \/ o = 101 * i) => verdict = "True"
            /\ (o = 50 * i \/ o = 110 * i) => verdict = "Wonky size"
            /\ verdict \in {"False", "True", "Wonky size"}

\* The boundary ratio 0.99 was judged plausible.
C2_Witness ==
    /\ pc = "checked"
    /\ input_size = 100
    /\ output_size = 99
    /\ verdict = "True"

-----------------------------------------------------------------------------
(* Claims about call_and_retry *)

Last(s) == s[Len(s)]

C14_ReturnsOnlyAfterSuccess ==
    /\ r_pc = "returned" => (outcomes /= <<>> /\ Last(outcomes) = 0)
    /\ (r_pc \notin {"for", "check_call", "except", "idle"}
            /\ \A k \in 1..Len(outcomes) : outcomes[k] /= 0) => r_pc = "raised"

\* The same statement for the retry bounds that are at least 1.
C14_HoldsForPositiveRetries ==
    retries >= 1 => C14_ReturnsOnlyAfterSuccess

-----------------------------------------------------------------------------
(* Claims about parse_edl *)

ParseFailures == {"IndexError", "ValueError"}

ThreeFields(d) ==
    /\ Len(d) = 3
    /\ d[1] \in Numerals
    /\ d[2] \in Numerals
    /\ d[3] \in {"0", "1"}

AtLeastThreeFields(d) ==
    /\ Len(d) >= 3
    /\ d[1] \in Numerals
    /\ d[2] \in Numerals
    /\ d[3] \in {"0", "1"}

\* parse_edl yielded the entry of the line last read, after those of the
\* lines before it.
EntryYielded ==
    /\ Len(edl_segments) = lineno
    /\ edl_segments[lineno] =
           <<float(data[1]), float(data[2]), IF data[3] = "0" THEN SKIP ELSE MUTE>>

\* C10 as stated: a line parses only if it has exactly three fields, two
\* numeric timestamps and an action code 0 or 1, and then yields its entry
\* in input order; any other line fails, and the failure leaves
\* list_segments without a segment list.
C10_ExactlyThreeFields ==
    lineno > 0 =>
        /\ pc \notin ParseFailures <=> ThreeFields(data)
        /\ pc \notin ParseFailures => EntryYielded
        /\ pc \in ParseFailures => segments = <<>>

\* C10 as amended: a line parses if and only if it has at least three
\* fields, the first two numeric and the third an action code 0 or 1
\* (fields after the third are ignored); it then yields its entry in input
\* order; any other line fails, and the failure leaves list_segments
\* without a segment list.
C10_AtLeastThreeFields ==
    lineno > 0 =>
        /\ pc \notin ParseFailures <=> AtLeastThreeFields(data)
        /\ pc \notin ParseFailures => EntryYielded
        /\ pc \in ParseFailures =>
               /\ segments = <<>>
               /\ Len(edl_segments) = lineno - 1

\* A line of four fields was parsed and list_segments returned.
C10_Witness ==
    /\ pc = "derived"
    /\ lineno = 2
    /\ Len(data) = 4
    /\ Len(edl_segments) = 2
    /\ segments /= <<>>
-----------------------------------------------------------------------------
(* Claims about do_work *)

\* C4: at every moment of a run the intact original is at video_path or the
\* complete replacement is at the target, also when the copy into place
\* fails part-way and when the target is the original's own path; and the
\* original is touched only after detection, extraction, concatenation and
\* a plausible verdict.
C4_OriginalOrReplacementInPlace ==
    /\ fs[video_path] = "original" \/ fs[target_of(video_path)] = "replacement"
    /\ fs[video_path] /= "original" =>
           /\ verdict = "True"
           /\ spliced_exists
           /\ segments_txt.written
           /\ concat_calls = 1

\* The same statement for the runs whose target is not the original's path.
C4_HoldsForOtherSuffix ==
    video_path.suffix /= ".ts" => C4_OriginalOrReplacementInPlace

-----------------------------------------------------------------------------
(* Claims about the extraction phase *)

Ext == video_path.suffix

Done == {i \in DOMAIN tasks : tasks[i] = "done"}

FileOf(i) == {f \in files : f.name = segment_file_name(i, Ext)}

\* The tasks whose extracted file is below the threshold of 1000 bytes.
SmallTasks == {i \in Done : \E f \in FileOf(i) : f.writer = i /\ f.size < 1000}

PoolComplete == DOMAIN tasks /= {} /\ Done = DOMAIN tasks

\* C6: a segment whose file is below 1000 bytes is left out of the manifest
\* without raising and the other segments are still listed and
\* concatenated; a failure of the cutter for any segment aborts the run: no
\* manifest, no concatenation, no output.
C6_SmallSkippedFailureAborts ==
    /\ \A i \in SmallTasks : value[i] = None
    /\ segments_txt.written =>
           /\ \A i \in DOMAIN value : value[i] /= Raised
           /\ {segments_txt.lines[k] : k \in 1..Len(segments_txt.lines)}
                  = {<<"file", segment_file_name(i, Ext)>> : i \in Done \ SmallTasks}
    /\ (\E i \in DOMAIN value : value[i] = Raised) =>
           /\ ~segments_txt.written
           /\ concat_calls = 0
           /\ ~spliced_exists
           /\ pc \in {"starmap", "raised", "finally", "propagated"}
           /\ pc /= "starmap" => exc /= NoExc
    /\ (PoolComplete /\ \A i \in DOMAIN value : value[i] /= Raised) =>
           /\ pc /= "starmap" => (pc = "write_segments_file" \/ segments_txt.written)
           /\ concat_calls = 1 => segments_txt.written

\* A small segment file was left out and the rest was concatenated.
C6_Witness ==
    /\ SmallTasks /= {}
    /\ segments_txt.written
    /\ Len(segments_txt.lines) >= 1
    /\ spliced_exists

\* The segment index a line of the manifest names.
IndexOf(line) == line[2][2]

\* C7: whatever the order in which the extraction tasks complete, the
\* manifest lists the files that were not excluded in segment-index order,
\* and distinct indices write distinct paths.
C7_ManifestInIndexOrder ==
    /\ segments_txt.written =>
           /\ \A k, l \in 1..Len(segments_txt.lines) :
                  k < l => IndexOf(segments_txt.lines[k]) < IndexOf(segments_txt.lines[l])
           /\ \A k \in 1..Len(segments_txt.lines) :
                  /\ IndexOf(segments_txt.lines[k]) \in DOMAIN value
                  /\ value[IndexOf(segments_txt.lines[k])] =
                         [kind |-> "file", name |-> segments_txt.lines[k][2]]
           /\ \A i \in DOMAIN value :
                  value[i].kind = "file" =>
                      \E k \in 1..Len(segments_txt.lines) : IndexOf(segments_txt.lines[k]) = i
    /\ \A i, j \in DOMAIN tasks :
           i /= j => segment_file_name(i, Ext) /= segment_file_name(j, Ext)
    /\ \A i \in Done : value[i] /= Raised => \E f \in files : f.writer = i

\* The tasks completed out of index order and the manifest lists several
\* files.
C7_Witness ==
    /\ segments_txt.written
    /\ Len(segments_txt.lines) >= 2
    /\ Len(order) >= 2
    /\ order[1] > order[2]


\* The tasks of the pool that have not finished.
Outstanding == {i \in DOMAIN tasks : tasks[i] /= "done"}

\* The concatenation step is due or under way or over: the manifest is being
\* written or written, ffmpeg runs or ran in concat mode.
ConcatStarted ==
    \/ pc \in {"write_segments_file", "ffmpeg_concat"}
    \/ segments_txt.written
    \/ concat_calls > 0
    \/ spliced_exists

\* C13: the concatenation step (writing the manifest, invoking ffmpeg in
\* concat mode) starts only after every extraction task of the pool has
\* finished: in no reachable state is it under way while a task is
\* outstanding, and it is invoked only when no extraction failed.
C13_ConcatAfterPoolJoin ==
    /\ ConcatStarted =>
           /\ DOMAIN tasks /= {}
           /\ Outstanding = {}
           /\ \A i \in DOMAIN value : value[i] \notin {NotDone, Raised}
           /\ Len(order) = Cardinality(DOMAIN tasks)
    /\ Outstanding /= {} => (pc = "starmap" /\ ~ConcatStarted)
    /\ concat_calls <= 1

\* ffmpeg ran in concat mode after three extraction tasks, which had
\* overlapped on the two workers, were all over.
C13_Witness ==
    /\ concat_calls = 1
    /\ Cardinality(DOMAIN tasks) = 3
    /\ Outstanding = {}
    /\ order[1] /= 0

-----------------------------------------------------------------------------
(* Claims about work_dir *)

Failed == exc /= NoExc

=============================================================================
